---- MODULE Spec2Model ----
(***************************************************************************)
(* Model of the GARCH / 200-SMA daily signal program (src/main.py) and of  *)
(* the stand-alone data validator (src/validator.py).                      *)
(*                                                                         *)
(* Numbers.  A pandas float is an integer here; NaN is the sentinel NaN.   *)
(* Closes are whole currency units, thresholds and rounded outputs are     *)
(* hundredths.  A z-score is kept exactly as sign * sqrt(n / m) (record    *)
(* [s, n, m], m = 0 for NaN), so that the strict comparisons against the   *)
(* thresholds are decided without rounding.                                *)
(*                                                                         *)
(* Sizes.  The window lengths of the source (500, 200, 126, 500, 1200 and  *)
(* the NaN tolerances 10 and 5) are scaled down to lengths TLC can         *)
(* enumerate; the relations between them that the code relies on are kept: *)
(*   min_days - nan tolerance - (sma_window - 1) >= z_window               *)
(*   fit window > look-back window + z_window - 1.                         *)
(***************************************************************************)
EXTENDS Integers, Sequences, FiniteSets, TLC

VARIABLES
    pc,            \* position of the program
    caller,        \* who called calculate_strategy / run_all_checks
    variant,       \* which DataValidator class runs: "main" or "validator"
    ticker,        \* calculate_strategy's ticker argument
    config,        \* calculate_strategy's config argument
    data,          \* the Close column of the downloaded frame (DataValidator.data)
    data0,         \* the Close column as it was handed to the validator
    days_diff,     \* (now - last_date).days of check_recency
    logs,          \* DataValidator.logs
    is_valid,      \* DataValidator.is_valid
    evaluated,     \* the checks run_all_checks has called, in call order
    is_clean,      \* first component of run_all_checks' return value
    train_index,   \* index (dates) of train_data
    garch_vol,     \* res.conditional_volatility, aligned with train_index
    z_score,       \* z_score, aligned with train_index
    analysis_df,   \* rows [date, Z_Score, Raw_Signal, State]
    current_z,     \* current_z
    garch_state,   \* garch_state
    trigger_msg,   \* trigger_msg
    result,        \* what calculate_strategy returned or raised
    idx,           \* position of the main loop in CONFIG.items()
    final_results, \* final_results
    signals_json   \* signals.json: whether it is written, and its "data" list

vars == <<pc, caller, variant, ticker, config, data, data0, days_diff, logs,
          is_valid, evaluated, is_clean, train_index, garch_vol, z_score,
          analysis_df, current_z, garch_state, trigger_msg, result, idx,
          final_results, signals_json>>

validatorVars == <<data, logs, is_valid, evaluated, is_clean>>
strategyVars == <<train_index, garch_vol, z_score, analysis_df, current_z,
                  garch_state, trigger_msg>>
mainVars == <<idx, final_results, signals_json>>

-----------------------------------------------------------------------------
(* Program constants (scaled, see the header) and bounds of the model.     *)

NaN == -999999

MinDays == 6            \* min_days = 500
MaxLagDays == 5         \* max_lag_days = 5
MaxNanMain == 2         \* nan_count > 10 in main.py
MaxNanValidator == 1    \* nan_count > 5 in validator.py
ExtremeMain == 50       \* threshold = 0.50, in percent
ExtremeValidator == 80  \* threshold = 0.80, in percent
SmaWindow == 2          \* sma_window = 200
ZWindow == 3            \* z_window = 126
Lookback == 4           \* tail(500)
FitWindow == 7          \* tail(1200)

MaxLen == 6             \* longest series the validator is enumerated on
MaxVol == 3             \* conditional volatilities are drawn from 1..MaxVol

Hold == 1               \* State 1.0
Exit == 0               \* State 0.0

-----------------------------------------------------------------------------
(* Helpers for sequences and floats.                                       *)

Last(s) == s[Len(s)]

Tail_(s, n) == IF Len(s) <= n THEN s ELSE SubSeq(s, Len(s) - n + 1, Len(s))

Abs(x) == IF x < 0 THEN -x ELSE x

Sign(x) == IF x > 0 THEN 1 ELSE IF x < 0 THEN -1 ELSE 0

SeqsUpTo(S, n) == UNION {[1..k -> S] : k \in 0..n}

\* pandas Series.ffill(): a NaN takes the last valid value before it; leading
\* NaNs stay.
RECURSIVE LastValid(_, _)
LastValid(s, i) ==
    IF i = 0 THEN NaN
    ELSE IF s[i] # NaN THEN s[i] ELSE LastValid(s, i - 1)

FFill(s) == [i \in 1..Len(s) |-> LastValid(s, i)]

\* round(num / den, 0) for den > 0, ties to even, as Python's round.
RoundDiv(num, den) ==
    LET q == num \div den
        r == num % den
    IN  IF 2 * r < den THEN q
        ELSE IF 2 * r > den THEN q + 1
        ELSE IF q % 2 = 0 THEN q ELSE q + 1

-----------------------------------------------------------------------------
(* DataValidator (src/main.py lines 12-92, src/validator.py lines 5-96).   *)

Msg(check, text, arg) == [check |-> check, text |-> text, arg |-> arg]

CheckOrder == <<"check_empty", "check_recency", "check_length",
                "check_zeros_and_nans", "check_extreme_moves">>

MaxNan == IF variant = "main" THEN MaxNanMain ELSE MaxNanValidator

ExtremeThreshold == IF variant = "main" THEN ExtremeMain ELSE ExtremeValidator

NanCount(s) == Cardinality({i \in 1..Len(s) : s[i] = NaN})

HasZero(s) == \E i \in 1..Len(s) : s[i] = 0

\* Dates i whose pct_change is defined and exceeds the threshold in size:
\* |c[i] / c[i-1] - 1| > threshold / 100.
ExtremeDays(s, threshold) ==
    {i \in 2..Len(s) : /\ s[i] # NaN
                       /\ s[i-1] # NaN
                       /\ s[i-1] # 0
                       /\ 100 * Abs(s[i] - s[i-1]) > threshold * s[i-1]}

SetMax(S) == CHOOSE x \in S : \A y \in S : y <= x

RECURSIVE SortedSeq(_)
SortedSeq(S) ==
    IF S = {} THEN <<>>
    ELSE LET m == CHOOSE x \in S : \A y \in S : x <= y
         IN  <<m>> \o SortedSeq(S \ {m})

\* Faulty variant of NextCheck: the next check is called whatever the last
\* one returned.
NextCheckMutantNoShortCircuit(check, ok) ==
    CASE check = "check_empty" -> "check_recency"
      [] check = "check_recency" -> "check_length"
      [] check = "check_length" -> "check_zeros_and_nans"
      [] check = "check_zeros_and_nans" -> "check_extreme_moves"
      [] OTHER -> "checks_return"

\* run_all_checks: the position after a check that returned ok.
NextCheck(check, ok) ==
    IF ~ok THEN "checks_return"
    ELSE CASE check = "check_empty" -> "check_recency"
           [] check = "check_recency" -> "check_length"
           [] check = "check_length" -> "check_zeros_and_nans"
           [] check = "check_zeros_and_nans" -> "check_extreme_moves"
           [] OTHER -> "checks_return"

\* What one check does to the validator: [ok, logs, data].
Outcome(ok, newLogs, newData) == [ok |-> ok, logs |-> newLogs, data |-> newData]

check_empty(d, l) ==
    IF Len(d) = 0
    THEN Outcome(FALSE, Append(l, Msg("check_empty", "empty", 0)), d)
    ELSE Outcome(TRUE, l, d)

check_recency(d, l, lag) ==
    IF lag > MaxLagDays
    THEN Outcome(FALSE, Append(l, Msg("check_recency", "stale", lag)), d)
    ELSE Outcome(TRUE, l, d)

check_length(d, l) ==
    IF Len(d) < MinDays
    THEN Outcome(FALSE, Append(l, Msg("check_length", "too short", Len(d))), d)
    ELSE Outcome(TRUE, l, d)

\* validator.py logs "NaN found" before it counts, and "filled" when it repairs.
NanFoundLog(l) ==
    IF variant = "main" THEN l
    ELSE Append(l, Msg("check_zeros_and_nans", "nan found", 0))

NanFailLog(l, n) ==
    IF variant = "main"
    THEN Append(l, Msg("check_zeros_and_nans", "too many nan", n))
    ELSE l

NanFillLog(l) ==
    IF variant = "main" THEN l
    ELSE Append(l, Msg("check_zeros_and_nans", "nan filled", 0))

Repair(d) == FFill(d)

\* Faulty variant of check_zeros_and_nans: the series is filled before the
\* zero and NaN-count tests decide.
check_zeros_and_nansMutantRepairFirst(d, l) ==
    IF HasZero(d)
    THEN Outcome(FALSE, Append(l, Msg("check_zeros_and_nans", "zero", 0)), Repair(d))
    ELSE IF NanCount(d) > 0
         THEN IF NanCount(d) > MaxNan
              THEN Outcome(FALSE, NanFailLog(NanFoundLog(l), NanCount(d)), Repair(d))
              ELSE Outcome(TRUE, NanFillLog(NanFoundLog(l)), Repair(d))
         ELSE Outcome(TRUE, l, d)

check_zeros_and_nans(d, l) ==
    IF HasZero(d)
    THEN Outcome(FALSE, Append(l, Msg("check_zeros_and_nans", "zero", 0)), d)
    ELSE IF NanCount(d) > 0
         THEN IF NanCount(d) > MaxNan
              THEN Outcome(FALSE, NanFailLog(NanFoundLog(l), NanCount(d)), d)
              ELSE Outcome(TRUE, NanFillLog(NanFoundLog(l)), Repair(d))
         ELSE Outcome(TRUE, l, d)

\* main.py logs the last extreme day; validator.py logs every extreme day.
ExtremeLogs(days) ==
    IF variant = "main"
    THEN <<Msg("check_extreme_moves", "extreme move", SetMax(days))>>
    ELSE LET s == SortedSeq(days)
         IN  [k \in 1..Len(s) |-> Msg("check_extreme_moves", "extreme move", s[k])]

check_extreme_moves(d, l) ==
    LET days == ExtremeDays(d, ExtremeThreshold)
    IN  IF days # {}
        THEN Outcome(FALSE, l \o ExtremeLogs(days), d)
        ELSE Outcome(TRUE, l, d)

RunCheck(check) ==
    CASE check = "check_empty" -> check_empty(data, logs)
      [] check = "check_recency" -> check_recency(data, logs, days_diff)
      [] check = "check_length" -> check_length(data, logs)
      [] check = "check_zeros_and_nans" -> check_zeros_and_nans(data, logs)
      [] OTHER -> check_extreme_moves(data, logs)

\* One line "if not self.check_x(): return False, self.logs" of run_all_checks.
\* The checks do not raise on a frame with a Close column and a date index,
\* which is what the series of this model are, so the except branch of
\* run_all_checks has no step here.
Check(check) ==
    /\ pc = check
    /\ LET o == RunCheck(check)
       IN  /\ data' = o.data
           /\ logs' = o.logs
           /\ is_valid' = (is_valid /\ o.ok)
           /\ is_clean' = o.ok
           /\ pc' = NextCheck(check, o.ok)
    /\ evaluated' = Append(evaluated, check)
    /\ UNCHANGED <<caller, variant, ticker, config, data0, days_diff, result>>
    /\ UNCHANGED strategyVars
    /\ UNCHANGED mainVars

CheckEmpty == Check("check_empty")
CheckRecency == Check("check_recency")
CheckLength == Check("check_length")
CheckZerosAndNans == Check("check_zeros_and_nans")
CheckExtremeMoves == Check("check_extreme_moves")

\* "return True, self.logs" / "return False, self.logs"; validator.py logs that
\* all checks passed before it returns True.
RunAllChecksReturn ==
    /\ pc = "checks_return"
    /\ logs' = IF is_clean /\ variant = "validator"
               THEN Append(logs, Msg("run_all_checks", "passed", 0))
               ELSE logs
    /\ pc' = IF caller = "validator" THEN "validated" ELSE "after_validate"
    /\ UNCHANGED <<caller, variant, ticker, config, data, data0, days_diff,
                   is_valid, evaluated, is_clean, result>>
    /\ UNCHANGED strategyVars
    /\ UNCHANGED mainVars

-----------------------------------------------------------------------------
(* Z-scores (src/main.py lines 184-191).                                   *)

ZNaN == [s |-> 0, n |-> 0, m |-> 0]

IsNaNz(z) == z.m = 0

RECURSIVE SumOver(_, _, _)
SumOver(s, lo, hi) == IF lo > hi THEN 0 ELSE s[hi] + SumOver(s, lo, hi - 1)

RECURSIVE SumSqOver(_, _, _)
SumSqOver(s, lo, hi) ==
    IF lo > hi THEN 0 ELSE s[hi] * s[hi] + SumSqOver(s, lo, hi - 1)

\* rolling(window).mean() and rolling(window).std() at position i, and the
\* z-score (x - mean) / std.  With S and Q the sum and the sum of squares of
\* the window, d = window * x - S and V = window * Q - S * S:
\*   x - mean = d / window,   std^2 = V / (window * (window - 1)),
\*   z = sign(d) * sqrt(d * d * (window - 1) / (window * V)).
\* Fewer than window observations give NaN statistics and a NaN z; std = 0
\* gives 0 / 0 = NaN.  The factor sqrt(252) of garch_vol_ann multiplies x,
\* mean and std alike and cancels in z, so vol is held in units of sqrt(252).
ZScoreAt(vol, i, window) ==
    IF i < window THEN ZNaN
    ELSE LET S == SumOver(vol, i - window + 1, i)
             Q == SumSqOver(vol, i - window + 1, i)
             d == window * vol[i] - S
             V == window * Q - S * S
         IN  IF V = 0 THEN ZNaN
             ELSE [s |-> Sign(d), n |-> d * d * (window - 1), m |-> window * V]

\* z > p / 100 and z < p / 100 as floats compare: False when z is NaN.
ZGt(z, p) ==
    /\ ~IsNaNz(z)
    /\ IF p >= 0
       THEN z.s > 0 /\ 10000 * z.n > p * p * z.m
       ELSE z.s >= 0 \/ 10000 * z.n < p * p * z.m

ZLt(z, p) ==
    /\ ~IsNaNz(z)
    /\ IF p <= 0
       THEN z.s < 0 /\ 10000 * z.n > p * p * z.m
       ELSE z.s <= 0 \/ 10000 * z.n < p * p * z.m

\* round(z, 2) and f"{z:.2f}", in hundredths; NaN stays NaN.
Round2Z(z) ==
    IF IsNaNz(z) THEN NaN
    ELSE z.s * (CHOOSE k \in 0..(100 * ZWindow) :
                   /\ 40000 * z.n < (2 * k + 1) * (2 * k + 1) * z.m
                   /\ k > 0 => 40000 * z.n >= (2 * k - 1) * (2 * k - 1) * z.m)

-----------------------------------------------------------------------------
(* calculate_strategy (src/main.py lines 118-249).                         *)

\* The strings of the records, in English:
\*   "data error" 數據錯誤, "data anomaly" 數據異常, "model error" 模型錯誤,
\*   "hold 100%" 持有 100%, "hold 50%" 持有 50%, "hold 0%" 持有 0% (空手),
\*   "hold" 持有, "sell" 賣出, "buy back" 買回, "error" 錯誤.
Reason(text, action, date, z, detail) ==
    [text |-> text, action |-> action, date |-> date, z |-> z, detail |-> detail]

Thresholds(text, exit, entry) == [text |-> text, exit |-> exit, entry |-> entry]

Returns(rec) == [kind |-> "return", value |-> rec]

Raises(what) == [kind |-> "raise", value |-> what]

ApiErrorRecord(t) ==
    [ticker |-> t, final_decision |-> "data error", garch_signal |-> "N/A",
     sma_signal |-> "N/A",
     trigger_reason |-> Reason("API failure", "", "", 0, <<>>),
     date |-> "now", price |-> 0, z_score |-> 0, is_above_sma |-> FALSE,
     sma_price |-> 0, thresholds |-> Thresholds("API Error", 0, 0)]

ValidationRecord(t, d, l) ==
    [ticker |-> t, final_decision |-> "data anomaly", garch_signal |-> "error",
     sma_signal |-> "error",
     trigger_reason |-> Reason("validation", "", "", 0, l),
     date |-> IF Len(d) > 0 THEN ToString(Len(d)) ELSE "N/A",
     price |-> IF Len(d) = 0 THEN 0
               ELSE IF Last(d) = NaN THEN NaN ELSE 100 * Last(d),
     z_score |-> 0, is_above_sma |-> FALSE, sma_price |-> 0,
     thresholds |-> Thresholds("Validation Failed", 0, 0)]

ModelErrorRecord(t) ==
    [ticker |-> t, final_decision |-> "model error", garch_signal |-> "N/A",
     sma_signal |-> "N/A",
     trigger_reason |-> Reason("GARCH failure", "", "", 0, <<>>),
     date |-> "now", price |-> 0, z_score |-> 0, is_above_sma |-> FALSE,
     sma_price |-> 0, thresholds |-> Thresholds("Model Error", 0, 0)]

\* data['Close'].rolling(window).mean() at i, times window; NaN until window
\* valid closes end at i.
SmaSum(c, i, window) ==
    IF i < window \/ \E j \in (i - window + 1)..i : c[j] = NaN THEN NaN
    ELSE SumOver(c, i - window + 1, i)

\* data['Close'].pct_change() is defined at i.
HasRet(c, i) == i >= 2 /\ c[i] # NaN /\ c[i-1] # NaN

\* Index of data.dropna(): rows whose Close, SMA and Ret_Pct are all valid.
CleanIndex(c, window) ==
    SortedSeq({i \in 1..Len(c) :
                  c[i] # NaN /\ SmaSum(c, i, window) # NaN /\ HasRet(c, i)})

\* Lines 122-141: the download, then DataValidator(ticker, data) and the
\* call of run_all_checks.
Download(Series, Lags) ==
    /\ pc = "download"
    /\ \/ /\ result' = Returns(ApiErrorRecord(ticker))
          /\ pc' = "returned"
          /\ UNCHANGED <<data, data0, days_diff>>
       \/ /\ data' \in Series
          /\ data0' = data'
          /\ days_diff' \in Lags
          /\ pc' = "check_empty"
          /\ UNCHANGED result
    /\ logs' = <<>>
    /\ is_valid' = TRUE
    /\ evaluated' = <<>>
    /\ UNCHANGED <<caller, variant, ticker, config, is_clean>>
    /\ UNCHANGED strategyVars
    /\ UNCHANGED mainVars

\* Lines 143-170: the error record of a failed validation, else the SMA, the
\* returns and train_data = clean_data['Ret_Pct'].tail(1200).
AfterValidate ==
    /\ pc = "after_validate"
    /\ IF ~is_clean
       THEN /\ result' = Returns(ValidationRecord(ticker, data, logs))
            /\ pc' = "returned"
            /\ UNCHANGED train_index
       ELSE /\ train_index' = Tail_(CleanIndex(data, config.sma_window), FitWindow)
            /\ pc' = "fit"
            /\ UNCHANGED result
    /\ UNCHANGED <<caller, variant, ticker, config, data0, days_diff>>
    /\ UNCHANGED validatorVars
    /\ UNCHANGED <<garch_vol, z_score, analysis_df, current_z, garch_state,
                   trigger_msg>>
    /\ UNCHANGED mainVars

\* Lines 173-186: the external fit either raises (model error record) or
\* gives one conditional volatility per row of train_data; Vols[n] are the
\* volatility series of length n it may give.
Fit(Vols) ==
    /\ pc = "fit"
    /\ \/ /\ result' = Returns(ModelErrorRecord(ticker))
          /\ pc' = "returned"
          /\ UNCHANGED garch_vol
       \/ /\ garch_vol' \in Vols[Len(train_index)]
          /\ pc' = "z_score"
          /\ UNCHANGED result
    /\ UNCHANGED <<caller, variant, ticker, config, data0, days_diff>>
    /\ UNCHANGED validatorVars
    /\ UNCHANGED <<train_index, z_score, analysis_df, current_z, garch_state,
                   trigger_msg>>
    /\ UNCHANGED mainVars

\* Lines 188-191.
ZScore ==
    /\ pc = "z_score"
    /\ z_score' = [i \in 1..Len(garch_vol) |-> ZScoreAt(garch_vol, i, ZWindow)]
    /\ pc' = "regime"
    /\ UNCHANGED <<caller, variant, ticker, config, data0, days_diff, result>>
    /\ UNCHANGED validatorVars
    /\ UNCHANGED <<train_index, garch_vol, analysis_df, current_z, garch_state,
                   trigger_msg>>
    /\ UNCHANGED mainVars

\* Faulty variant of RawSignal: the comparisons are not strict.
RawSignalMutantInclusive(z, cfg) ==
    IF ~IsNaNz(z) /\ ~ZGt(z, cfg.garch_entry) THEN Hold
    ELSE IF ~IsNaNz(z) /\ ~ZLt(z, cfg.garch_exit) THEN Exit
    ELSE NaN

\* Lines 197-199: NaN, then 0.0 where Z > garch_exit, then 1.0 where
\* Z < garch_entry (the later assignment wins).
RawSignal(z, cfg) ==
    IF ZLt(z, cfg.garch_entry) THEN Hold
    ELSE IF ZGt(z, cfg.garch_exit) THEN Exit
    ELSE NaN

\* Faulty variant of StateOf: fillna(1.0) without the ffill().
StateOfMutantNoFFill(raw) ==
    [i \in 1..Len(raw) |-> IF raw[i] = NaN THEN Hold ELSE raw[i]]

\* Line 200: Raw_Signal.ffill().fillna(1.0).
StateOf(raw) ==
    LET ff == FFill(raw)
    IN  [i \in 1..Len(raw) |-> IF ff[i] = NaN THEN Hold ELSE ff[i]]

\* Line 194: DataFrame({'Z_Score': z_score}).dropna().tail(500), as the
\* sequence of positions of z kept.
WindowRows(z) ==
    Tail_(SortedSeq({i \in 1..Len(z) : ~IsNaNz(z[i])}), Lookback)

\* Lines 194-200 on a z-score series z with index dates.
AnalysisDf(z, dates, cfg) ==
    LET rows == WindowRows(z)
        raw == [k \in 1..Len(rows) |-> RawSignal(z[rows[k]], cfg)]
        st == StateOf(raw)
    IN  [k \in 1..Len(rows) |->
            [date |-> dates[rows[k]], Z_Score |-> z[rows[k]],
             Raw_Signal |-> raw[k], State |-> st[k]]]

Regime ==
    /\ pc = "regime"
    /\ analysis_df' = AnalysisDf(z_score, train_index, config)
    /\ pc' = "latest"
    /\ UNCHANGED <<caller, variant, ticker, config, data0, days_diff, result>>
    /\ UNCHANGED validatorVars
    /\ UNCHANGED <<train_index, garch_vol, z_score, current_z, garch_state,
                   trigger_msg>>
    /\ UNCHANGED mainVars

\* Lines 203-205.  iloc[-1] of an empty series raises IndexError.
last_idx == Len(data)

PositionOf(dates, d) == CHOOSE k \in 1..Len(dates) : dates[k] = d

Latest ==
    /\ pc = "latest"
    /\ IF (\A k \in 1..Len(train_index) : train_index[k] # last_idx) /\ Len(z_score) = 0
       THEN /\ result' = Raises("IndexError")
            /\ pc' = "returned"
            /\ UNCHANGED <<current_z, garch_state>>
       ELSE /\ current_z' = IF \E k \in 1..Len(train_index) : train_index[k] = last_idx
                            THEN z_score[PositionOf(train_index, last_idx)]
                            ELSE Last(z_score)
            /\ IF Len(analysis_df) = 0
               THEN /\ result' = Raises("IndexError")
                    /\ pc' = "returned"
                    /\ UNCHANGED garch_state
               ELSE /\ garch_state' = Last(analysis_df).State
                    /\ pc' = "trigger"
                    /\ UNCHANGED result
    /\ UNCHANGED <<caller, variant, ticker, config, data0, days_diff>>
    /\ UNCHANGED validatorVars
    /\ UNCHANGED <<train_index, garch_vol, z_score, analysis_df, trigger_msg>>
    /\ UNCHANGED mainVars

\* Faulty variant of ChangeRows: the first row is compared with the default
\* state Hold.
ChangeRowsMutantFirstRow(df, state) ==
    {k \in 1..Len(df) :
        (IF k = 1 THEN df[k].State - Hold ELSE df[k].State - df[k-1].State)
            = (IF state = Exit THEN -1 ELSE 1)}

\* Lines 208-224: State.diff() is NaN at the first row; the dates where it is
\* -1 (final state Exit) or +1 (final state Hold); the last of them.
ChangeRows(df, state) ==
    {k \in 2..Len(df) :
        df[k].State - df[k-1].State = (IF state = Exit THEN -1 ELSE 1)}

TriggerMsg(df, state) ==
    LET rows == ChangeRows(df, state)
        action == IF state = Exit THEN "sell" ELSE "buy back"
    IN  IF rows # {}
        THEN LET k == SetMax(rows)
             IN  Reason("triggered", action, ToString(df[k].date),
                        Round2Z(df[k].Z_Score), <<>>)
        ELSE Reason("long-standing", "", "", 0, <<>>)

Trigger ==
    /\ pc = "trigger"
    /\ trigger_msg' = TriggerMsg(analysis_df, garch_state)
    /\ pc' = "blend"
    /\ UNCHANGED <<caller, variant, ticker, config, data0, days_diff, result>>
    /\ UNCHANGED validatorVars
    /\ UNCHANGED <<train_index, garch_vol, z_score, analysis_df, current_z,
                   garch_state>>
    /\ UNCHANGED mainVars

\* Faulty variant of AboveSma: close >= SMA.
AboveSmaMutantInclusive(price, smaSum, window) ==
    smaSum # NaN /\ window * price >= smaSum

\* Line 229 and 242: current_price > current_sma, False when the SMA is NaN.
AboveSma(price, smaSum, window) ==
    price # NaN /\ smaSum # NaN /\ window * price > smaSum

\* Lines 231-235: blend_score = 0.5 * garch_state + 0.5 * sma_signal, held
\* here as twice its value.
FinalText(state, sma_signal) ==
    LET blend_score2 == state + sma_signal
    IN  IF blend_score2 = 2 THEN "hold 100%"
        ELSE IF blend_score2 = 1 THEN "hold 50%"
        ELSE "hold 0%"

\* Lines 227-249.
SignalRecord(t, cfg, c, z, state, msg) ==
    LET current_price == c[Len(c)]
        current_sma == SmaSum(c, Len(c), cfg.sma_window)
        above == AboveSma(current_price, current_sma, cfg.sma_window)
        sma_signal == IF above THEN 1 ELSE 0
    IN  [ticker |-> t,
         date |-> ToString(Len(c)),
         price |-> IF current_price = NaN THEN NaN ELSE 100 * current_price,
         z_score |-> Round2Z(z),
         is_above_sma |-> above,
         sma_price |-> IF current_sma = NaN THEN NaN
                       ELSE RoundDiv(100 * current_sma, cfg.sma_window),
         garch_signal |-> IF state = Hold THEN "hold" ELSE "sell",
         sma_signal |-> IF sma_signal = 1 THEN "hold" ELSE "sell",
         final_decision |-> FinalText(state, sma_signal),
         thresholds |-> Thresholds("GARCH", cfg.garch_exit, cfg.garch_entry),
         trigger_reason |-> msg]

Blend ==
    /\ pc = "blend"
    /\ result' = Returns(SignalRecord(ticker, config, data, current_z,
                                      garch_state, trigger_msg))
    /\ pc' = "returned"
    /\ UNCHANGED <<caller, variant, ticker, config, data0, days_diff>>
    /\ UNCHANGED validatorVars
    /\ UNCHANGED strategyVars
    /\ UNCHANGED mainVars

-----------------------------------------------------------------------------
(* The main program (src/main.py lines 97-113 and 254-273).                *)

TickerOrder == <<"UPRO", "EURL", "EDC">>

CONFIG ==
    [t \in {"UPRO", "EURL", "EDC"} |->
        CASE t = "UPRO" ->
                [garch_exit |-> 200, garch_entry |-> 100, sma_window |-> SmaWindow]
          [] t = "EURL" ->
                [garch_exit |-> 375, garch_entry |-> 175, sma_window |-> SmaWindow]
          [] OTHER ->
                [garch_exit |-> 175, garch_entry |-> -25, sma_window |-> SmaWindow]]

NoConfig == [garch_exit |-> 0, garch_entry |-> 0, sma_window |-> 0]

NoRecord == [kind |-> "none"]

Unwritten == [written |-> FALSE, data |-> <<>>]

\* The locals of calculate_strategy and the validator before a call.
FreshLocals ==
    /\ data = <<>>
    /\ data0 = <<>>
    /\ days_diff = 0
    /\ logs = <<>>
    /\ is_valid = TRUE
    /\ evaluated = <<>>
    /\ is_clean = TRUE
    /\ train_index = <<>>
    /\ garch_vol = <<>>
    /\ z_score = <<>>
    /\ analysis_df = <<>>
    /\ current_z = ZNaN
    /\ garch_state = NaN
    /\ trigger_msg = NoRecord
    /\ result = NoRecord

\* Line 258-260: the next item of CONFIG.items() and the call.
MainCall ==
    /\ pc = "main_loop"
    /\ idx < Len(TickerOrder)
    /\ ticker' = TickerOrder[idx + 1]
    /\ config' = CONFIG[TickerOrder[idx + 1]]
    /\ pc' = "download"
    /\ UNCHANGED <<caller, variant, data0, days_diff, result>>
    /\ UNCHANGED validatorVars
    /\ UNCHANGED strategyVars
    /\ UNCHANGED mainVars

\* Lines 260-263: "if res: final_results.append(res)" after a return (a
\* record is a non-empty dict, so it is truthy), "print" after an exception.
Collect(res, results) ==
    IF res.kind = "return" THEN Append(results, res.value) ELSE results

\* Faulty variant of AfterCall: an exception leaves the loop.
AfterCallMutantAbort(res) == IF res.kind = "raise" THEN "aborted" ELSE "main_loop"

\* Lines 259-263: the try/except keeps the loop going after any outcome.
AfterCall(res) == "main_loop"

MainCollect ==
    /\ pc = "returned"
    /\ caller = "main"
    /\ final_results' = Collect(result, final_results)
    /\ idx' = idx + 1
    /\ pc' = AfterCall(result)
    /\ data' = <<>>
    /\ data0' = <<>>
    /\ days_diff' = 0
    /\ logs' = <<>>
    /\ is_valid' = TRUE
    /\ evaluated' = <<>>
    /\ is_clean' = TRUE
    /\ train_index' = <<>>
    /\ garch_vol' = <<>>
    /\ z_score' = <<>>
    /\ analysis_df' = <<>>
    /\ current_z' = ZNaN
    /\ garch_state' = NaN
    /\ trigger_msg' = NoRecord
    /\ result' = NoRecord
    /\ UNCHANGED <<caller, variant, ticker, config, signals_json>>

\* Lines 265-271: the loop is over; signals.json is written.
MainWrite ==
    /\ pc = "main_loop"
    /\ idx = Len(TickerOrder)
    /\ signals_json' = [written |-> TRUE, data |-> final_results]
    /\ pc' = "done"
    /\ UNCHANGED <<caller, variant, ticker, config, data0, days_diff, result,
                   idx, final_results>>
    /\ UNCHANGED validatorVars
    /\ UNCHANGED strategyVars

-----------------------------------------------------------------------------
(* Inputs and specifications.                                              *)

CloseVals == {NaN, 0, 1, 2}
LagVals == {MaxLagDays, 10}

Flat(n, v) == [i \in 1..n |-> v]

\* Series the strategy is run on: empty, with a zero, flat (close = SMA),
\* rising (close > SMA, and long enough to fill the fit window), falling,
\* with a repairable NaN, with a leading NaN.
StrategySeries ==
    { <<>>,
      [i \in 1..MinDays |-> IF i = 2 THEN 0 ELSE 2],
      Flat(MinDays, 2),
      Flat(FitWindow, 2) \o <<3>>,
      Flat(MinDays - 1, 3) \o <<2>>,
      [i \in 1..MinDays |-> IF i = 2 THEN NaN ELSE IF i = MinDays THEN 3 ELSE 2],
      <<NaN>> \o Flat(MinDays - 1, 2) \o <<3>> }

VolSeqs(n) == [1..n -> 1..MaxVol]

\* Configurations calculate_strategy is called with: those of CONFIG, a band
\* whose thresholds the scaled z-scores reach, and two without a band.
ConfigSet ==
    {CONFIG[t] : t \in DOMAIN CONFIG}
        \cup {[garch_exit |-> 100, garch_entry |-> 0, sma_window |-> SmaWindow],
              [garch_exit |-> 0, garch_entry |-> 100, sma_window |-> SmaWindow],
              [garch_exit |-> 50, garch_entry |-> 50, sma_window |-> SmaWindow]}

MainSeries == {<<>>, Flat(MinDays, 2) \o <<3>>}
MainLags == {0}
MainVolSeqs(n) == {Flat(n, 1), [i \in 1..n |-> IF i = n - 1 THEN 2 ELSE 1]}

DownloadMain == Download(MainSeries, MainLags)
FitMain == Fit([n \in 0..FitWindow |-> MainVolSeqs(n)])
DownloadStrategy == Download(StrategySeries, LagVals)
FitStrategy == Fit([n \in 0..FitWindow |-> VolSeqs(n)])

Init ==
    /\ pc = "main_loop"
    /\ caller = "main"
    /\ variant = "main"
    /\ ticker = ""
    /\ config = NoConfig
    /\ FreshLocals
    /\ idx = 0
    /\ final_results = <<>>
    /\ signals_json = Unwritten

Next ==
    \/ MainCall
    \/ DownloadMain
    \/ CheckEmpty
    \/ CheckRecency
    \/ CheckLength
    \/ CheckZerosAndNans
    \/ CheckExtremeMoves
    \/ RunAllChecksReturn
    \/ AfterValidate
    \/ FitMain
    \/ ZScore
    \/ Regime
    \/ Latest
    \/ Trigger
    \/ Blend
    \/ MainCollect
    \/ MainWrite

Spec == Init /\ [][Next]_vars

\* The program is sequential: whenever it has a next step it takes it.
FairSpec == Spec /\ WF_vars(Next)

\* calculate_strategy called on its own with any ticker configuration.
InitStrategy ==
    /\ pc = "download"
    /\ caller = "direct"
    /\ variant = "main"
    /\ ticker = "UPRO"
    /\ config \in ConfigSet
    /\ FreshLocals
    /\ idx = 0
    /\ final_results = <<>>
    /\ signals_json = Unwritten

NextStrategy ==
    \/ DownloadStrategy
    \/ CheckEmpty
    \/ CheckRecency
    \/ CheckLength
    \/ CheckZerosAndNans
    \/ CheckExtremeMoves
    \/ RunAllChecksReturn
    \/ AfterValidate
    \/ FitStrategy
    \/ ZScore
    \/ Regime
    \/ Latest
    \/ Trigger
    \/ Blend

SpecStrategy == InitStrategy /\ [][NextStrategy]_vars

\* DataValidator(ticker, data).run_all_checks() on its own, for either class.
InitValidator ==
    /\ pc = "check_empty"
    /\ caller = "validator"
    /\ variant \in {"main", "validator"}
    /\ ticker = "UPRO"
    /\ config = NoConfig
    /\ data \in SeqsUpTo(CloseVals, MaxLen)
    /\ data0 = data
    /\ days_diff \in LagVals
    /\ logs = <<>>
    /\ is_valid = TRUE
    /\ evaluated = <<>>
    /\ is_clean = TRUE
    /\ train_index = <<>>
    /\ garch_vol = <<>>
    /\ z_score = <<>>
    /\ analysis_df = <<>>
    /\ current_z = ZNaN
    /\ garch_state = NaN
    /\ trigger_msg = NoRecord
    /\ result = NoRecord
    /\ idx = 0
    /\ final_results = <<>>
    /\ signals_json = Unwritten

NextValidator ==
    \/ CheckEmpty
    \/ CheckRecency
    \/ CheckLength
    \/ CheckZerosAndNans
    \/ CheckExtremeMoves
    \/ RunAllChecksReturn

SpecValidator == InitValidator /\ [][NextValidator]_vars

-----------------------------------------------------------------------------
(* Claims about DataValidator, checked under SpecValidator.                *)

Prefix(s, k) == SubSeq(s, 1, k)

LogTexts == {logs[i].text : i \in 1..Len(logs)}

LogChecks == {logs[i].check : i \in 1..Len(logs)}

Returned == pc = "validated"

\* C4: run_all_checks evaluates empty, recency, length, zero/NaN, extreme-move
\* in that order and stops at the first check that fails: the report is
\* failing, its last message is that check's, no later check is evaluated or
\* logs anything; a short series with a zero close fails on its length (once
\* it is non-empty and fresh) and never logs the zero message.
C4_ShortCircuit ==
    Returned =>
        /\ Len(evaluated) \in 1..Len(CheckOrder)
        /\ evaluated = Prefix(CheckOrder, Len(evaluated))
        /\ is_clean => Len(evaluated) = Len(CheckOrder)
        /\ ~is_clean => /\ Last(logs).check = Last(evaluated)
                        /\ LogChecks \subseteq {evaluated[i] : i \in 1..Len(evaluated)}
        /\ Len(data0) = 0 =>
              ~is_clean /\ Len(evaluated) = 1 /\ Last(logs).text = "empty"
        /\ (Len(data0) > 0 /\ days_diff > MaxLagDays) =>
              ~is_clean /\ Len(evaluated) = 2 /\ Last(logs).text = "stale"
        /\ (Len(data0) > 0 /\ days_diff <= MaxLagDays /\ Len(data0) < MinDays) =>
              ~is_clean /\ Len(evaluated) = 3 /\ Last(logs).text = "too short"
        /\ (Len(data0) < MinDays /\ HasZero(data0)) => "zero" \notin LogTexts
        /\ (Len(data0) >= MinDays /\ days_diff <= MaxLagDays /\ HasZero(data0)) =>
              ~is_clean /\ Len(evaluated) = 4 /\ Last(logs).text = "zero"

C4_Witness ==
    /\ Returned
    /\ Len(data0) > 0
    /\ Len(data0) < MinDays
    /\ HasZero(data0)
    /\ days_diff <= MaxLagDays
    /\ ~is_clean
    /\ Last(logs).text = "too short"

\* C9: a run of run_all_checks leaves the length and every present close of
\* the series as they were; a missing close is replaced, by the last valid
\* close before it, only when checks 1-3 passed, no close is zero and the
\* missing closes are within the tolerance; a run failing at check 1, 2, 3,
\* on a zero or on too many missing closes leaves the series untouched.
C9_OnlyRepairMutates ==
    /\ Len(data) = Len(data0)
    /\ \A i \in 1..Len(data0) :
          /\ data0[i] # NaN => data[i] = data0[i]
          /\ (data0[i] = NaN /\ data[i] # NaN) =>
                \E j \in 1..(i-1) : /\ data0[j] # NaN
                                    /\ data[i] = data0[j]
                                    /\ \A k \in (j+1)..i : data0[k] = NaN
    /\ data # data0 =>
          /\ Len(data0) >= MinDays
          /\ days_diff <= MaxLagDays
          /\ ~HasZero(data0)
          /\ NanCount(data0) \in 1..MaxNan
    /\ (Returned /\ ~is_clean /\ Len(evaluated) <= 3) => data = data0
    /\ (Returned /\ ~is_clean /\ Len(evaluated) = 4) => data = data0

C9_Witness ==
    /\ Returned
    /\ data # data0
    /\ \E i \in 1..Len(data0) : data0[i] = NaN /\ data[i] # NaN

-----------------------------------------------------------------------------
(* Claims about calculate_strategy, checked under SpecStrategy.            *)

ValidBand(cfg) == cfg.garch_exit > cfg.garch_entry

InBand(z, cfg) == ~ZGt(z, cfg.garch_exit) /\ ~ZLt(z, cfg.garch_entry)

Success(res) == res.kind = "return" /\ res.value.thresholds.text = "GARCH"

States(df) == [k \in 1..Len(df) |-> df[k].State]

\* C1: with garch_exit > garch_entry, the state is Exit after Hold only at a
\* date whose z-score is strictly above garch_exit, Hold after Exit only at a
\* date whose z-score is strictly below garch_entry, and it does not change
\* at a date whose z-score lies in the closed band [garch_entry, garch_exit].
C1_Hysteresis ==
    ValidBand(config) =>
        \A k \in 2..Len(analysis_df) :
            LET z == analysis_df[k].Z_Score
                now == analysis_df[k].State
                before == analysis_df[k-1].State
            IN  /\ (now = Exit /\ before = Hold) => ZGt(z, config.garch_exit)
                /\ (now = Hold /\ before = Exit) => ZLt(z, config.garch_entry)
                /\ InBand(z, config) => now = before

C1_Witness ==
    /\ ValidBand(config)
    /\ Len(analysis_df) = 4
    /\ States(analysis_df) = <<Hold, Exit, Exit, Hold>>
    /\ InBand(analysis_df[3].Z_Score, config)

\* The z-scores 0.5, 1.2, 2.1, 2.3, 0.8, -0.5 of the specification's scenario.
FromHundredths(h) == [s |-> Sign(h), n |-> h * h, m |-> 10000]

ExampleZ == [k \in 1..6 |-> FromHundredths(<<50, 120, 210, 230, 80, -50>>[k])]

\* The state at each date of the window is the most recent raw signal at or
\* before it (Exit where z > garch_exit, Hold where z < garch_entry), and Hold
\* before the first raw signal; the final state is that of the last date.
MostRecentRawSignal ==
    /\ \A k \in 1..Len(analysis_df) :
          LET J == {j \in 1..k :
                       \/ ZGt(analysis_df[j].Z_Score, config.garch_exit)
                       \/ ZLt(analysis_df[j].Z_Score, config.garch_entry)}
              z == analysis_df[SetMax(J)].Z_Score
          IN  /\ analysis_df[k].State \in {Hold, Exit}
              /\ J = {} => analysis_df[k].State = Hold
              /\ (J # {} /\ analysis_df[k].State = Exit) =>
                    ZGt(z, config.garch_exit)
              /\ (J # {} /\ analysis_df[k].State = Hold) =>
                    ZLt(z, config.garch_entry)
    /\ (pc \in {"trigger", "blend"} \/ Success(result)) =>
          /\ Len(analysis_df) > 0
          /\ garch_state \in {Hold, Exit}
          /\ garch_state = Last(analysis_df).State

ExampleStates == StateOf([k \in 1..6 |-> RawSignal(ExampleZ[k], CONFIG["UPRO"])])

\* C2 as claimed: the state at each date is the most recent raw signal at or
\* before it, Hold before the first, the final state is defined, and the
\* scenario 0.5, 1.2, 2.1, 2.3, 0.8, -0.5 with exit 2.0 and entry 1.0 gives
\* Hold, Hold, Exit, Exit, Exit, Hold.
C2_ForwardFillAsClaimed ==
    /\ MostRecentRawSignal
    /\ ExampleStates = <<Hold, Hold, Exit, Exit, Exit, Hold>>

\* C2 as amended: the same rule, and the scenario gives Hold, Hold, Exit,
\* Exit, Hold, Hold, since 0.8 is below the entry threshold 1.0 and is a Hold
\* raw signal (as is 0.5).
C2_ForwardFill ==
    /\ MostRecentRawSignal
    /\ ExampleStates = <<Hold, Hold, Exit, Exit, Hold, Hold>>

C2_Witness ==
    /\ ValidBand(config)
    /\ Success(result)
    /\ Len(analysis_df) = 3
    /\ analysis_df[1].Raw_Signal = NaN
    /\ analysis_df[3].Raw_Signal = NaN
    /\ States(analysis_df) = <<Hold, Exit, Exit>>

\* C3: the exposure of a signal record is fixed by its regime and trend flags:
\* Hold and above 100%, Hold and below 50%, Exit and above 50%, Exit and
\* below 0%; the trend flag is above only when the last close is strictly
\* greater than the moving average of the last sma_window closes.
C3_BlendTable ==
    Success(result) =>
        LET rec == result.value
            w == config.sma_window
            closes == {data[i] : i \in (Len(data) - w + 1)..Len(data)}
            defined == Len(data) >= w /\ NaN \notin closes
            sum == SumOver(data, Len(data) - w + 1, Len(data))
        IN  /\ rec.is_above_sma = (defined /\ w * Last(data) > sum)
            /\ rec.sma_signal = (IF rec.is_above_sma THEN "hold" ELSE "sell")
            /\ rec.garch_signal = (IF garch_state = Hold THEN "hold" ELSE "sell")
            /\ rec.final_decision =
                  (CASE rec.garch_signal = "hold" /\ rec.is_above_sma -> "hold 100%"
                     [] rec.garch_signal = "hold" /\ ~rec.is_above_sma -> "hold 50%"
                     [] rec.garch_signal = "sell" /\ rec.is_above_sma -> "hold 50%"
                     [] OTHER -> "hold 0%")

C3_Witness ==
    /\ Success(result)
    /\ garch_state = Exit
    /\ Last(data) * config.sma_window
          = SumOver(data, Len(data) - config.sma_window + 1, Len(data))
    /\ ~result.value.is_above_sma
    /\ result.value.final_decision = "hold 0%"

\* C7: the reported trigger is the most recent date of the window whose state
\* differs from the state of the date before it in the window, with the
\* z-score of that date and the direction of the final state; when no date
\* differs from its predecessor the long-standing message is reported, also
\* when the first entry of the window is Exit.
C7_Trigger ==
    (pc = "blend" \/ Success(result)) =>
        LET msg == IF pc = "blend" THEN trigger_msg ELSE result.value.trigger_reason
            changes == {k \in 2..Len(analysis_df) :
                           analysis_df[k].State # analysis_df[k-1].State}
        IN  IF changes = {}
            THEN msg.text = "long-standing"
            ELSE LET k == SetMax(changes)
                 IN  /\ msg.text = "triggered"
                     /\ msg.date = ToString(analysis_df[k].date)
                     /\ msg.z = Round2Z(analysis_df[k].Z_Score)
                     /\ analysis_df[k].State = garch_state
                     /\ msg.action = (IF garch_state = Exit THEN "sell" ELSE "buy back")

C7_Witness ==
    /\ Success(result)
    /\ Len(analysis_df) = 3
    /\ States(analysis_df) = <<Exit, Exit, Exit>>
    /\ result.value.trigger_reason.text = "long-standing"

\* C7, a second case: two changes in the window, the later one reported.
C7_WitnessTwoChanges ==
    /\ Success(result)
    /\ States(analysis_df) = <<Hold, Exit, Hold>>
    /\ result.value.trigger_reason.action = "buy back"

\* C8: a configuration whose garch_exit is not strictly greater than its
\* garch_entry never gets a normal signal record from calculate_strategy.
C8_InvertedAborts ==
    (pc = "returned" /\ ~ValidBand(config)) => ~Success(result)

\* C10: the z-score of a date is undefined when fewer than z_window
\* volatilities end at it or their standard deviation is zero, and the
\* z_score of a signal record is never undefined.
StdIsZero(vol, i) ==
    \A j \in (i - ZWindow + 1)..i : vol[j] = vol[i]

C10_NoNaNInRecord ==
    /\ \A i \in 1..Len(z_score) :
          (i < ZWindow \/ StdIsZero(garch_vol, i)) => IsNaNz(z_score[i])
    /\ Success(result) => result.value.z_score # NaN

\* C10, its first half alone: the z-score of a date is undefined exactly when
\* fewer than z_window volatilities end at it or their deviation is zero.
C10_UndefinedZ ==
    \A i \in 1..Len(z_score) :
        (i < ZWindow \/ StdIsZero(garch_vol, i)) <=> IsNaNz(z_score[i])

-----------------------------------------------------------------------------
(* Claims about the main loop, checked under Spec and FairSpec.            *)

Tickers(records) == [i \in 1..Len(records) |-> records[i].ticker]

\* C5: the written batch holds exactly one record for every configured
\* ticker, whatever happened in each ticker's pipeline.
C5_OneRecordPerTicker ==
    pc = "done" => Tickers(signals_json.data) = TickerOrder

\* C6: a failing ticker (an error record or an exception) never stops the
\* loop: the loop goes on to the next ticker, the records collected so far
\* stay as they are, and in the end every ticker has been processed and the
\* file is written.
C6_Isolation ==
    /\ [](/\ pc \in {"main_loop", "download", "check_empty", "check_recency",
                     "check_length", "check_zeros_and_nans",
                     "check_extreme_moves", "checks_return", "after_validate",
                     "fit", "z_score", "regime", "latest", "trigger", "blend",
                     "returned", "done"}
          /\ pc = "done" =>
                /\ idx = Len(TickerOrder)
                /\ signals_json = [written |-> TRUE, data |-> final_results]
          /\ pc # "done" => idx < Len(TickerOrder) \/ pc = "main_loop")
    /\ [][/\ Len(final_results') >= Len(final_results)
          /\ \A i \in 1..Len(final_results) : final_results'[i] = final_results[i]
          /\ pc = "returned" => pc' = "main_loop" /\ idx' = idx + 1
          /\ (pc = "main_loop" /\ idx < Len(TickerOrder)) =>
                pc' = "download" /\ ticker' = TickerOrder[idx + 1]
          /\ (pc = "main_loop" /\ idx = Len(TickerOrder)) => pc' = "done"]_vars
    /\ <>(/\ pc = "done"
          /\ idx = Len(TickerOrder)
          /\ signals_json = [written |-> TRUE, data |-> final_results])

C6_Witness ==
    /\ pc = "done"
    /\ signals_json = [written |-> TRUE, data |-> final_results]
    /\ Tickers(signals_json.data) = <<"UPRO", "EDC">>
    /\ signals_json.data[1].final_decision = "data anomaly"
    /\ signals_json.data[2].thresholds.text = "GARCH"

====
